---------------------------- MODULE Spec2Model ----------------------------
(***************************************************************************)
(* Model of the NyaySetu legal chatbot service: the FastAPI layer          *)
(* (src/main.py), the voice collaborators (src/scripts/voice_input.py,     *)
(* src/scripts/voice_output.py), the VoiceChatbot orchestrator             *)
(* (src/scripts/voice_chatbot.py) and the corpus indexer                   *)
(* (src/scripts/build_vectordb.py).                                        *)
(*                                                                         *)
(* Python values are tagged records: None is NoneVal, a str is Str(s) with *)
(* s a sequence of characters, so that truthiness, strip() and the         *)
(* None / "" / " " distinctions are computed as Python computes them.      *)
(* Calls that leave the repository (Whisper, gTTS, the file system,        *)
(* answer_query) are inputs of the actions: each action draws the outcome  *)
(* of every external call it makes and records what it did in `last`.      *)
(***************************************************************************)
EXTENDS Integers, Sequences, FiniteSets, TLC

VARIABLES
    phase,                  \* lifespan position: "startup", "serving", "shutdown"
    voice_input_processor,  \* main.py global
    voice_output_processor, \* main.py global
    rag_ready,              \* outcome of the startup answer_query probe
    inflight,               \* chat_voice requests suspended at `await audio.read()`
    temp_audio,             \* names of the files present in temp_audio/
    voice_outputs,          \* files present in the voice output directory: name -> size
    bot,                    \* the VoiceChatbot instance of voice_chatbot.py
    collection,             \* the persisted Chroma collection "legal_knowledge"
    corpus,                 \* the source documents under ../data: file -> number of documents
    runs,                   \* completed runs of the indexer
    last                    \* what the last completed operation did and returned

vars == <<phase, voice_input_processor, voice_output_processor, rag_ready,
          inflight, temp_audio, voice_outputs, bot, collection, corpus, runs, last>>

serviceVars == <<phase, voice_input_processor, voice_output_processor, rag_ready,
                 inflight, temp_audio>>

indexVars == <<collection, corpus, runs>>

-----------------------------------------------------------------------------
(* Bounds *)

MaxLen == 2         \* longest text drawn for a message or a transcription
MaxUuid == 2        \* size of the pool uuid4() draws file names from
MaxInflight == 1    \* chat_voice requests suspended at the same time
MaxConcurrent == 2  \* the same, where only chat_voice is being called
MaxDocs == 2        \* documents in one source file
MaxRuns == 2        \* runs of the indexer

-----------------------------------------------------------------------------
(* Python values *)

NoneVal == [tag |-> "None"]

Str(s) == [tag |-> "str", val |-> s]

\* Python truthiness (`if x:` / `not x` / `x or y`).
Truthy(v) ==
    CASE v.tag = "None" -> FALSE
      [] v.tag = "str"  -> v.val # <<>>
      [] OTHER          -> TRUE

\* The outcome of a call: it returns a value or raises an Exception.
Return(v) == [kind |-> "return", value |-> v]

Raise(what) == [kind |-> "raise", value |-> Str(<<what>>)]

NotCalled == [kind |-> "not_called"]

Chars == {" ", "a"}

Whitespace == {" "}

Texts == UNION {[1..n -> Chars] : n \in 0..MaxLen}

RECURSIVE lstrip(_)
lstrip(s) ==
    IF s # <<>> /\ Head(s) \in Whitespace THEN lstrip(Tail(s)) ELSE s

RECURSIVE rstrip(_)
rstrip(s) ==
    IF s # <<>> /\ s[Len(s)] \in Whitespace
    THEN rstrip(SubSeq(s, 1, Len(s) - 1))
    ELSE s

\* str.strip()
strip(s) == rstrip(lstrip(s))

Uuids == {ToString(i) : i \in 1..MaxUuid}

\* uuid.uuid4(): a name no file in sight carries. The names are opaque and
\* interchangeable, so the draw is represented by one unused name (none when
\* the pool is exhausted, which caps the number of files the model holds).
uuid4(used) ==
    IF Uuids \ used = {} THEN {} ELSE {CHOOSE u \in Uuids \ used : TRUE}


\* os.path.join / Path.__truediv__ followed by str(): directory and file name.
Path(dir, name) == Str(<<dir, "/", name>>)

\* What an operation did: the external calls it made, in order, each with the
\* outcome the environment gave it, the branch it left by and what it returned.
NoTrace ==
    [op |-> "none", args |-> <<>>, exit |-> "none", result |-> NoneVal,
     transcribe_calls |-> <<>>, answer_calls |-> <<>>, speak_calls |-> <<>>,
     temp_path |-> NoneVal, saved_upload |-> FALSE, unlink_calls |-> <<>>]

-----------------------------------------------------------------------------
(* rag_pipeline.answer_query: returns a reply string or raises *)

Replies == {Str(<<"reply1">>), Str(<<"reply2">>)}

AnswerOutcomes == {Return(r) : r \in Replies} \cup {Raise("Exception")}

answer_query(query_text, outcome) == outcome

-----------------------------------------------------------------------------
(* scripts/voice_input.py *)

WhisperModel(model_size) == [tag |-> "WhisperModel", size |-> model_size]

\* `import whisper` / whisper.load_model(model_size)
LoadOutcomes == {"ok", "import_error", "load_error"}

\* self.model.transcribe(audio_path): raises, or returns a dict that holds
\* a "text" entry or not.
WhisperOutcomes ==
    {Raise("Exception")}
        \cup {Return([has_text |-> TRUE, text |-> t]) : t \in Texts}
        \cup {Return([has_text |-> FALSE, text |-> <<>>])}

VoiceInputProcessor_init(model_size, load) ==
    Return([tag |-> "VoiceInputProcessor",
            model |-> IF load = "ok" THEN WhisperModel(model_size) ELSE NoneVal])

transcribe_unstripped(self, audio_path, heard) ==
    IF ~Truthy(self.model) THEN Return(NoneVal)
    ELSE IF heard.kind = "raise" THEN Return(NoneVal)
    ELSE LET text == IF heard.value.has_text THEN heard.value.text ELSE <<>>
         IN  Return(IF text # <<>> THEN Str(text) ELSE NoneVal)

transcribe(self, audio_path, heard) ==
    IF ~Truthy(self.model) THEN Return(NoneVal)
    ELSE IF heard.kind = "raise" THEN Return(NoneVal)
    ELSE LET text == strip(IF heard.value.has_text THEN heard.value.text ELSE <<>>)
         IN  Return(IF text # <<>> THEN Str(text) ELSE NoneVal)

-----------------------------------------------------------------------------
(* scripts/voice_output.py *)

MinAudioBytes == 1000

Sizes == {MinAudioBytes - 1, MinAudioBytes}

\* os.makedirs(self.output_dir, exist_ok=True)
MakedirsOutcomes == {"ok", "os_error"}

\* gTTS(text=text) raises or not; tts.save(filepath) raises or not; the file
\* that is on disk afterwards (a failed save may leave a partial file).
TtsOutcomes ==
    {[ctor |-> "raise", save |-> "not_called", exists |-> FALSE, size |-> 0]}
        \cup {[ctor |-> "ok", save |-> s, exists |-> FALSE, size |-> 0] :
                s \in {"ok", "raise"}}
        \cup {[ctor |-> "ok", save |-> s, exists |-> TRUE, size |-> n] :
                s \in {"ok", "raise"}, n \in Sizes}

VoiceOutputProcessor_init(output_dir, mk) ==
    IF mk = "ok"
    THEN Return([tag |-> "VoiceOutputProcessor", output_dir |-> output_dir])
    ELSE Raise("OSError")

\* The directory after tts.save wrote (or failed to write) the file.
saved(files, name, tts) ==
    IF tts.ctor = "ok" /\ tts.exists
    THEN [n \in DOMAIN files \cup {name} |-> IF n = name THEN tts.size ELSE files[n]]
    ELSE files

speak_unchecked(self, text, name, tts, files) ==
    LET written == saved(files, name, tts)
    IN  IF tts.ctor = "raise" \/ tts.save = "raise"
        THEN [result |-> Return(NoneVal), files |-> written]
        ELSE [result |-> Return(Path(self.output_dir, name)), files |-> written]

speak(self, text, name, tts, files) ==
    LET filepath == Path(self.output_dir, name)
        written == saved(files, name, tts)
    IN  IF tts.ctor = "raise" \/ tts.save = "raise"
        THEN [result |-> Return(NoneVal), files |-> written]
        ELSE IF name \notin DOMAIN written \/ written[name] < MinAudioBytes
        THEN [result |-> Return(NoneVal), files |-> written]
        ELSE [result |-> Return(filepath), files |-> written]

-----------------------------------------------------------------------------
(* scripts/voice_chatbot.py *)

UNABLE == Str(<<"Unable to process input.">>)

\* VoiceChatbot(): both processors with their default arguments; the
\* constructor of VoiceOutputProcessor may raise, and then so does this one.
VoiceChatbot_init(load, mk) ==
    LET vi == VoiceInputProcessor_init("base", load)
        vo == VoiceOutputProcessor_init("voice_outputs", mk)
    IN  IF vi.kind = "raise" THEN vi
        ELSE IF vo.kind = "raise" THEN vo
        ELSE Return([tag |-> "VoiceChatbot",
                     voice_input |-> vi.value, voice_output |-> vo.value])

\* The dict process returns.
Reply(text, audio) == [tag |-> "dict", text |-> text, audio |-> audio]

process_always_speaks(self, text_input, audio_path, heard, ans, name, tts, files) ==
    LET transcribed == IF Truthy(audio_path)
                       THEN transcribe(self.voice_input, audio_path, heard)
                       ELSE NotCalled
        heardCalls == IF Truthy(audio_path)
                      THEN <<[self |-> self.voice_input, audio_path |-> audio_path,
                              heard |-> heard, result |-> transcribed]>>
                      ELSE <<>>
        text == IF Truthy(audio_path) /\ transcribed.kind = "return"
                   /\ Truthy(transcribed.value)
                THEN transcribed.value
                ELSE text_input
        base == [NoTrace EXCEPT !.op = "process",
                    !.args = [text_input |-> text_input, audio_path |-> audio_path],
                    !.transcribe_calls = heardCalls]
    IN  IF transcribed.kind = "raise"
        THEN [trace |-> [base EXCEPT !.exit = "raised", !.result = transcribed],
              files |-> files]
        ELSE IF ~Truthy(text)
        THEN [trace |-> [base EXCEPT !.exit = "unable",
                            !.result = Return(Reply(UNABLE, NoneVal))],
              files |-> files]
        ELSE
        LET text_response == answer_query(text, ans)
            asked == [base EXCEPT
                        !.answer_calls = <<[arg |-> text, outcome |-> ans]>>]
        IN  IF text_response.kind = "raise"
            THEN [trace |-> [asked EXCEPT !.exit = "raised", !.result = text_response],
                  files |-> files]
            ELSE
                LET spoken == speak(self.voice_output, text_response.value, name, tts, files)
                IN  IF spoken.result.kind = "raise"
                    THEN [trace |-> [asked EXCEPT !.exit = "raised",
                                        !.result = spoken.result,
                                        !.speak_calls = <<[text |-> text_response.value,
                                            name |-> name, tts |-> tts,
                                            result |-> spoken.result]>>],
                          files |-> spoken.files]
                    ELSE [trace |-> [asked EXCEPT !.exit = "returned",
                                        !.result = Return(Reply(text_response.value,
                                                                spoken.result.value)),
                                        !.speak_calls = <<[text |-> text_response.value,
                                            name |-> name, tts |-> tts,
                                            result |-> spoken.result]>>],
                          files |-> spoken.files]

process(self, text_input, audio_path, heard, ans, name, tts, files) ==
    LET transcribed == IF Truthy(audio_path)
                       THEN transcribe(self.voice_input, audio_path, heard)
                       ELSE NotCalled
        heardCalls == IF Truthy(audio_path)
                      THEN <<[self |-> self.voice_input, audio_path |-> audio_path,
                              heard |-> heard, result |-> transcribed]>>
                      ELSE <<>>
        \* Step 1: the transcription replaces text_input only when it is truthy.
        text == IF Truthy(audio_path) /\ transcribed.kind = "return"
                   /\ Truthy(transcribed.value)
                THEN transcribed.value
                ELSE text_input
        base == [NoTrace EXCEPT !.op = "process",
                    !.args = [text_input |-> text_input, audio_path |-> audio_path],
                    !.transcribe_calls = heardCalls]
    IN  IF transcribed.kind = "raise"
        THEN [trace |-> [base EXCEPT !.exit = "raised", !.result = transcribed],
              files |-> files]
        ELSE IF ~Truthy(text)
        THEN [trace |-> [base EXCEPT !.exit = "unable",
                            !.result = Return(Reply(UNABLE, NoneVal))],
              files |-> files]
        ELSE
        \* Step 2: the core chatbot response; an exception propagates.
        LET text_response == answer_query(text, ans)
            asked == [base EXCEPT
                        !.answer_calls = <<[arg |-> text, outcome |-> ans]>>]
        IN  IF text_response.kind = "raise"
            THEN [trace |-> [asked EXCEPT !.exit = "raised", !.result = text_response],
                  files |-> files]
            ELSE IF ~Truthy(audio_path)
            THEN [trace |-> [asked EXCEPT !.exit = "returned",
                                !.result = Return(Reply(text_response.value, NoneVal))],
                  files |-> files]
            ELSE
                \* Step 3: voice output, only when the input was audio.
                LET spoken == speak(self.voice_output, text_response.value, name, tts, files)
                    speakCalls == <<[text |-> text_response.value, name |-> name,
                                     tts |-> tts, result |-> spoken.result]>>
                IN  IF spoken.result.kind = "raise"
                    THEN [trace |-> [asked EXCEPT !.exit = "raised",
                                        !.result = spoken.result,
                                        !.speak_calls = speakCalls],
                          files |-> spoken.files]
                    ELSE [trace |-> [asked EXCEPT !.exit = "returned",
                                        !.result = Return(Reply(text_response.value,
                                                                spoken.result.value)),
                                        !.speak_calls = speakCalls],
                          files |-> spoken.files]

-----------------------------------------------------------------------------
(* main.py: utilities and response models *)

APOLOGY ==
    Str(<<"I apologize, but I'm temporarily unable to process your request. Please try again.">>)

\* generate_session_id(): str(uuid.uuid4())
GeneratedIds == {Str(<<"generated-uuid">>)}

safe_chatbot_call_reraising(user_message, ans) ==
    answer_query(user_message, ans)

safe_chatbot_call(user_message, ans) ==
    LET reply == answer_query(user_message, ans)
    IN  IF reply.kind = "raise" THEN Return(APOLOGY) ELSE reply

HTTPException(status_code, detail) ==
    [kind |-> "raise",
     value |-> [tag |-> "HTTPException", status_code |-> status_code, detail |-> detail]]

ChatResponse(reply, session_id, confidence) ==
    [tag |-> "ChatResponse", reply |-> reply, session_id |-> session_id,
     confidence |-> confidence]

VoiceChatResponse(reply, session_id, audio_base64, audio_path, transcribed_text) ==
    [tag |-> "VoiceChatResponse", reply |-> reply, session_id |-> session_id,
     audio_base64 |-> audio_base64, audio_path |-> audio_path,
     transcribed_text |-> transcribed_text]

HealthResponse(status, voice_input_available, voice_output_available) ==
    [tag |-> "HealthResponse", status |-> status,
     voice_input_available |-> voice_input_available,
     voice_output_available |-> voice_output_available]

-----------------------------------------------------------------------------
(* main.py: endpoints *)

root ==
    [NoTrace EXCEPT !.op = "root", !.exit = "returned",
        !.result = Return([tag |-> "dict", status |-> "operational"])]

health_check(vip, vop) ==
    [NoTrace EXCEPT !.op = "health_check", !.exit = "returned",
        !.result = Return(HealthResponse("ok",
                            vip # NoneVal /\ vip.model # NoneVal,
                            vop # NoneVal))]

chat_forwarding_session(request, generated, ans) ==
    LET session_id == IF Truthy(request.session_id)
                      THEN request.session_id ELSE generated
        base == [NoTrace EXCEPT !.op = "chat", !.args = request]
    IN  IF ~Truthy(request.message) \/ ~Truthy(Str(strip(request.message.val)))
        THEN [base EXCEPT !.exit = "empty_400",
                !.result = HTTPException(400, "Message cannot be empty")]
        ELSE
        LET reply == safe_chatbot_call(session_id, ans)
            asked == [base EXCEPT
                        !.answer_calls = <<[arg |-> session_id, outcome |-> ans]>>]
        IN  IF reply.kind = "raise"
            THEN [asked EXCEPT !.exit = "chatbot_500",
                    !.result = HTTPException(500, "Chatbot temporarily unavailable")]
            ELSE [asked EXCEPT !.exit = "returned",
                    !.result = Return(ChatResponse(reply.value, session_id, NoneVal))]

chat(request, generated, ans) ==
    LET session_id == IF Truthy(request.session_id)
                      THEN request.session_id ELSE generated
        base == [NoTrace EXCEPT !.op = "chat", !.args = request]
    IN  IF ~Truthy(request.message) \/ ~Truthy(Str(strip(request.message.val)))
        THEN [base EXCEPT !.exit = "empty_400",
                !.result = HTTPException(400, "Message cannot be empty")]
        ELSE
        LET user_message == Str(strip(request.message.val))
            reply == safe_chatbot_call(user_message, ans)
            asked == [base EXCEPT
                        !.answer_calls = <<[arg |-> user_message, outcome |-> ans]>>]
        IN  IF reply.kind = "raise"
            THEN [asked EXCEPT !.exit = "chatbot_500",
                    !.result = HTTPException(500, "Chatbot temporarily unavailable")]
            ELSE [asked EXCEPT !.exit = "returned",
                    !.result = Return(ChatResponse(reply.value, session_id, NoneVal))]

\* temp_dir / f"{uuid.uuid4().hex}_{audio.filename}"
TempPath(u, filename) == Str(<<"temp_audio", "/", u, "_", filename>>)

Suspended(trace, temp, request) ==
    [done |-> FALSE, trace |-> trace, temp |-> temp, request |-> request]

Finished(trace, temp) ==
    [done |-> TRUE, trace |-> trace, temp |-> temp, request |-> NoneVal]

\* chat_voice up to `await audio.read()`: the session id, the availability
\* gate, the temporary path and open(temp_audio_path, "wb").
chat_voice_begin_ungated(form, generated, vip, u, opened, temp) ==
    LET session_id == IF Truthy(form.session_id) THEN form.session_id ELSE generated
        base == [NoTrace EXCEPT !.op = "chat_voice", !.args = form]
        temp_audio_path == TempPath(u, form.filename)
    IN  IF ~Truthy(vip)
        THEN Finished([base EXCEPT !.exit = "gate_503",
                !.result = HTTPException(503,
                    "Voice input is not available. Speech recognition is disabled.")],
                temp)
        ELSE IF opened = "raise"
        THEN Finished([base EXCEPT !.exit = "unhandled_500",
                !.result = Raise("OSError"), !.temp_path = temp_audio_path], temp)
        ELSE Suspended(NoTrace, temp \cup {temp_audio_path},
                [session_id |-> session_id, form |-> form,
                 temp_audio_path |-> temp_audio_path])

chat_voice_begin(form, generated, vip, u, opened, temp) ==
    LET session_id == IF Truthy(form.session_id) THEN form.session_id ELSE generated
        base == [NoTrace EXCEPT !.op = "chat_voice", !.args = form]
        temp_audio_path == TempPath(u, form.filename)
    IN  IF ~Truthy(vip) \/ ~Truthy(vip.model)
        THEN Finished([base EXCEPT !.exit = "gate_503",
                !.result = HTTPException(503,
                    "Voice input is not available. Speech recognition is disabled.")],
                temp)
        ELSE IF opened = "raise"
        \* finally: the file does not exist, nothing to unlink; the error propagates
        THEN Finished([base EXCEPT !.exit = "unhandled_500",
                !.result = Raise("OSError"), !.temp_path = temp_audio_path], temp)
        ELSE Suspended(NoTrace, temp \cup {temp_audio_path},
                [session_id |-> session_id, form |-> form,
                 temp_audio_path |-> temp_audio_path])

cleanup_skipped(temp, temp_audio_path, unlink) == temp

\* finally: if temp_audio_path.exists(): try unlink() except: pass
cleanup(temp, temp_audio_path, unlink) ==
    IF temp_audio_path \in temp /\ unlink = "ok"
    THEN temp \ {temp_audio_path}
    ELSE temp

\* The unlink() the finally clause makes, with the outcome it got: none when
\* temp_audio_path.exists() is false.
unlink_calls(temp, temp_audio_path, unlink) ==
    IF temp_audio_path \in temp
    THEN <<[path |-> temp_audio_path, outcome |-> unlink]>>
    ELSE <<>>

\* chat_voice from the return of `await audio.read()` to the response.
chat_voice_resume(req, vip, vop, read, heard, ans, name, tts, readback, unlink, temp, files) ==
    LET base == [NoTrace EXCEPT !.op = "chat_voice", !.args = req.form,
                    !.temp_path = req.temp_audio_path,
                    !.unlink_calls = unlink_calls(temp, req.temp_audio_path, unlink)]
        swept == cleanup(temp, req.temp_audio_path, unlink)
    IN  IF read = "raise"
        THEN [trace |-> [base EXCEPT !.exit = "unhandled_500",
                            !.result = Raise("OSError")],
              temp |-> swept, files |-> files]
        ELSE
        LET transcribed_text == transcribe(vip, req.temp_audio_path, heard)
            heardTrace == [base EXCEPT !.saved_upload = TRUE,
                            !.transcribe_calls =
                                <<[self |-> vip, audio_path |-> req.temp_audio_path,
                                   heard |-> heard, result |-> transcribed_text]>>]
        IN  IF transcribed_text.kind = "raise"
            THEN [trace |-> [heardTrace EXCEPT !.exit = "unhandled_500",
                                !.result = transcribed_text],
                  temp |-> swept, files |-> files]
            ELSE IF ~Truthy(transcribed_text.value)
            THEN [trace |-> [heardTrace EXCEPT !.exit = "no_transcription_400",
                                !.result = HTTPException(400,
                                    "Could not transcribe audio. Please ensure the audio is clear and in a supported format.")],
                  temp |-> swept, files |-> files]
            ELSE
            LET reply == safe_chatbot_call(transcribed_text.value, ans)
                asked == [heardTrace EXCEPT
                            !.answer_calls = <<[arg |-> transcribed_text.value,
                                                outcome |-> ans]>>]
            IN  IF reply.kind = "raise"
                THEN [trace |-> [asked EXCEPT !.exit = "chatbot_500",
                                    !.result = HTTPException(500,
                                        "Chatbot temporarily unavailable")],
                      temp |-> swept, files |-> files]
                ELSE IF ~(req.form.return_audio /\ Truthy(vop))
                THEN [trace |-> [asked EXCEPT !.exit = "returned",
                                    !.result = Return(VoiceChatResponse(reply.value,
                                        req.session_id, NoneVal, NoneVal,
                                        transcribed_text.value))],
                      temp |-> swept, files |-> files]
                ELSE
                LET spoken == speak(vop, reply.value, name, tts, files)
                    audio_path == spoken.result.value
                    \* an exception of speak or of the read-back is printed and dropped
                    audio_base64 ==
                        IF spoken.result.kind = "return" /\ Truthy(audio_path)
                           /\ name \in DOMAIN spoken.files /\ readback = "ok"
                        THEN Str(<<"base64", name>>)
                        ELSE NoneVal
                IN  [trace |-> [asked EXCEPT !.exit = "returned",
                                    !.speak_calls = <<[text |-> reply.value,
                                        name |-> name, tts |-> tts,
                                        result |-> spoken.result]>>,
                                    !.result = Return(VoiceChatResponse(reply.value,
                                        req.session_id, audio_base64, NoneVal,
                                        transcribed_text.value))],
                      temp |-> swept, files |-> spoken.files]

\* lifespan before `yield`: every failure is printed and startup goes on.
lifespan(load, mk, ans) ==
    LET vi == VoiceInputProcessor_init("base", load)
        vo == VoiceOutputProcessor_init("scripts/voice_outputs", mk)
        test_response == answer_query(Str(<<"test initialization">>), ans)
    IN  [voice_input_processor |-> IF vi.kind = "return" THEN vi.value ELSE NoneVal,
         voice_output_processor |-> IF vo.kind = "return" THEN vo.value ELSE NoneVal,
         rag_ready |-> IF test_response.kind = "raise" THEN "failed" ELSE "ok",
         phase |-> "serving",
         trace |-> [NoTrace EXCEPT !.op = "lifespan", !.exit = "yield",
                        !.args = [load |-> load, mk |-> mk],
                        !.answer_calls = <<[arg |-> Str(<<"test initialization">>),
                                            outcome |-> ans]>>]]

-----------------------------------------------------------------------------
(* scripts/build_vectordb.py *)

DATA_FILES ==
    <<"../data/normalized_ipc.json", "../data/normalized_crpc.json",
      "../data/normalized_glossary.json", "../data/normalized_amendments.json">>

DataFiles == {DATA_FILES[i] : i \in DOMAIN DATA_FILES}

\* load_documents(path): the documents of one source file, in file order.
load_documents(path, docs) ==
    [i \in 1..docs[path] |-> [source |-> path, index |-> i]]

RECURSIVE extend_all(_, _)
\* all_docs = []; for path in DATA_FILES: all_docs.extend(load_documents(path))
extend_all(paths, docs) ==
    IF paths = <<>> THEN <<>>
    ELSE load_documents(Head(paths), docs) \o extend_all(Tail(paths), docs)

\* The identifiers Chroma gives documents passed without ids: one new uuid
\* each, represented by the next unused numbers.
new_ids(stored, n) ==
    LET top == IF stored = {} THEN 0
               ELSE CHOOSE m \in {r.id : r \in stored} :
                        \A r \in stored : r.id <= m
    IN  [i \in 1..n |-> top + i]

\* Chroma.from_documents(documents, embedding, persist_directory,
\* collection_name): opens the collection of that name (creating it when it
\* does not exist) and adds every document under a new identifier.
from_documents(stored, documents) ==
    LET ids == new_ids(stored, Len(documents))
    IN  stored \cup {[id |-> ids[i], document |-> documents[i]] :
                        i \in DOMAIN documents}

\* One run of the script.
build_vectordb(stored, docs, embed) ==
    LET all_docs == extend_all(DATA_FILES, docs)
        base == [NoTrace EXCEPT !.op = "build_vectordb",
                    !.args = [before |-> {r.id : r \in stored},
                              documents |-> Len(all_docs)]]
    IN  IF embed = "raise"
        THEN [collection |-> stored,
              trace |-> [base EXCEPT !.exit = "raised", !.result = Raise("OSError")]]
        ELSE LET vectordb == from_documents(stored, all_docs)
             IN  [collection |-> vectordb,
                  trace |-> [base EXCEPT !.exit = "built",
                        !.result = Return([ids |-> {r.id : r \in vectordb},
                                           count |-> Cardinality(vectordb)])]]

-----------------------------------------------------------------------------
(* Inputs and initial state *)

OptTexts == {NoneVal} \cup {Str(t) : t \in Texts}

AudioPaths == {NoneVal, Str(<<>>), Str(<<"question.wav">>)}

EmptyDir == [n \in {} |-> 0]

Init ==
    /\ phase = "startup"
    /\ voice_input_processor = NoneVal
    /\ voice_output_processor = NoneVal
    /\ rag_ready = "untested"
    /\ inflight = {}
    /\ temp_audio = {}
    /\ voice_outputs = EmptyDir
    /\ bot = NoneVal
    /\ collection = {}
    /\ corpus = [path \in DataFiles |-> 0]
    /\ runs = 0
    /\ last = NoTrace

SessionIds == {NoneVal, Str(<<"session-1">>)}

ChatRequests == [session_id : SessionIds, message : {Str(t) : t \in Texts}]

VoiceForms == [session_id : SessionIds, return_audio : BOOLEAN,
               filename : {"question.wav"}]

\* Nothing is being returned: the previous result was handed to the caller.
Idle == last = NoTrace

\* An outcome for a call the operation may not reach; drawn in full only
\* when the operation makes the call.
AnyAnswer == Return(Str(<<"reply1">>))

AnyTts == [ctor |-> "raise", save |-> "not_called", exists |-> FALSE, size |-> 0]

-----------------------------------------------------------------------------
(* The service: startup, the event loop running one handler step at a time *)

voiceVars == <<bot>>

Startup ==
    /\ phase = "startup"
    /\ Idle
    /\ \E load \in LoadOutcomes, mk \in MakedirsOutcomes, ans \in AnswerOutcomes :
        LET up == lifespan(load, mk, ans)
        IN  /\ voice_input_processor' = up.voice_input_processor
            /\ voice_output_processor' = up.voice_output_processor
            /\ rag_ready' = up.rag_ready
            /\ phase' = up.phase
            /\ last' = up.trace
    /\ UNCHANGED <<inflight, temp_audio, voice_outputs, voiceVars, indexVars>>

\* lifespan after `yield`
Shutdown ==
    /\ phase = "serving"
    /\ Idle
    /\ inflight = {}
    /\ phase' = "shutdown"
    /\ UNCHANGED <<voice_input_processor, voice_output_processor, rag_ready, inflight,
                   temp_audio, voice_outputs, voiceVars, indexVars, last>>

\* The response (or the startup banner) leaves the process.
Respond ==
    /\ ~Idle
    /\ last' = NoTrace
    /\ UNCHANGED <<serviceVars, voice_outputs, voiceVars, indexVars>>

GetRoot ==
    /\ phase = "serving"
    /\ Idle
    /\ last' = root
    /\ UNCHANGED <<serviceVars, voice_outputs, voiceVars, indexVars>>

GetHealth ==
    /\ phase = "serving"
    /\ Idle
    /\ last' = health_check(voice_input_processor, voice_output_processor)
    /\ UNCHANGED <<serviceVars, voice_outputs, voiceVars, indexVars>>

PostChat ==
    /\ phase = "serving"
    /\ Idle
    /\ \E request \in ChatRequests :
       \E generated \in IF Truthy(request.session_id) THEN {NoneVal} ELSE GeneratedIds :
       \E ans \in IF chat(request, generated, AnyAnswer).answer_calls # <<>>
                  THEN AnswerOutcomes ELSE {NotCalled} :
            last' = chat(request, generated, ans)
    /\ UNCHANGED <<serviceVars, voice_outputs, voiceVars, indexVars>>

UsedTemp == {p.val[3] : p \in temp_audio}

AcceptChatVoice(forms, limit) ==
    /\ phase = "serving"
    /\ Idle
    /\ \E form \in forms :
       \E generated \in IF Truthy(form.session_id) THEN {NoneVal} ELSE GeneratedIds :
       LET gated == chat_voice_begin(form, generated, voice_input_processor, "-",
                                     "ok", temp_audio).done
       IN  \E u \in IF gated THEN {"-"} ELSE uuid4(UsedTemp) :
           \E opened \in IF gated THEN {"ok"} ELSE {"ok", "raise"} :
            LET began == chat_voice_begin(form, generated, voice_input_processor, u,
                                          opened, temp_audio)
            IN  /\ began.done \/ Cardinality(inflight) < limit
                /\ last' = began.trace
                /\ temp_audio' = began.temp
                /\ inflight' = IF began.done THEN inflight
                               ELSE inflight \cup {began.request}
    /\ UNCHANGED <<phase, voice_input_processor, voice_output_processor, rag_ready,
                   voice_outputs, voiceVars, indexVars>>

PostChatVoice == AcceptChatVoice(VoiceForms, MaxInflight)

ResumeChatVoice ==
    /\ phase = "serving"
    /\ Idle
    /\ \E req \in inflight :
       \E read \in {"ok", "raise"}, unlink \in {"ok", "fail"} :
       \E heard \in IF read = "ok" THEN WhisperOutcomes ELSE {NotCalled} :
       \E ans \in IF chat_voice_resume(req, voice_input_processor,
                        voice_output_processor, read, heard, AnyAnswer, "-", AnyTts,
                        "ok", unlink, temp_audio, voice_outputs).trace.answer_calls # <<>>
                  THEN AnswerOutcomes ELSE {NotCalled} :
       \E tts \in IF chat_voice_resume(req, voice_input_processor,
                        voice_output_processor, read, heard, ans, "-", AnyTts,
                        "ok", unlink, temp_audio, voice_outputs).trace.speak_calls # <<>>
                  THEN TtsOutcomes ELSE {NotCalled} :
       \E name \in IF tts = NotCalled THEN {"-"} ELSE uuid4(DOMAIN voice_outputs) :
       \E readback \in IF tts = NotCalled THEN {"ok"} ELSE {"ok", "raise"} :
            LET done == chat_voice_resume(req, voice_input_processor,
                            voice_output_processor, read, heard, ans, name, tts,
                            readback, unlink, temp_audio, voice_outputs)
            IN  /\ last' = done.trace
                /\ temp_audio' = done.temp
                /\ voice_outputs' = done.files
                /\ inflight' = inflight \ {req}
    /\ UNCHANGED <<phase, voice_input_processor, voice_output_processor, rag_ready,
                   voiceVars, indexVars>>

Next ==
    \/ Startup
    \/ Shutdown
    \/ Respond
    \/ GetRoot
    \/ GetHealth
    \/ PostChat
    \/ PostChatVoice
    \/ ResumeChatVoice

Spec == Init /\ [][Next]_vars

\* The service under voice requests only, several of them suspended at
\* `await audio.read()` at the same time.

\* chat_voice copies session_id to the response and does nothing else with
\* it, so the requests here all leave it out: two of them differ in nothing
\* but the temporary file each one made.
AnonymousForms == {form \in VoiceForms : form.session_id = NoneVal}

PostChatVoiceConcurrent == AcceptChatVoice(AnonymousForms, MaxConcurrent)

UploadNext ==
    \/ Startup
    \/ PostChatVoiceConcurrent
    \/ ResumeChatVoice
    \/ Respond

UploadSpec == Init /\ [][UploadNext]_vars

-----------------------------------------------------------------------------
(* The voice classes, driven as a script drives them (test_voice_chatbot.py) *)

\* The script is sequential: it makes a call, holds the result in `last`,
\* prints it, and only then makes the next call.

\* print(result["text"]); print(result["audio"])
PrintResult ==
    /\ ~Idle
    /\ last' = NoTrace
    /\ UNCHANGED <<serviceVars, indexVars, voice_outputs, bot>>

\* bot = VoiceChatbot()
NewVoiceChatbot ==
    /\ Idle
    /\ \E load \in LoadOutcomes, mk \in MakedirsOutcomes :
        LET made == VoiceChatbot_init(load, mk)
        IN  /\ bot' = IF made.kind = "return" THEN made.value ELSE bot
            /\ last' = [NoTrace EXCEPT !.op = "VoiceChatbot",
                            !.args = [load |-> load, mk |-> mk],
                            !.exit = IF made.kind = "return" THEN "returned" ELSE "raised",
                            !.result = made]
    /\ UNCHANGED <<serviceVars, indexVars, voice_outputs>>

\* bot.voice_input.transcribe(audio_path)
Transcribe ==
    /\ Idle
    /\ bot # NoneVal
    /\ \E heard \in WhisperOutcomes :
        LET audio_path == Str(<<"question.wav">>)
            out == transcribe(bot.voice_input, audio_path, heard)
        IN  last' = [NoTrace EXCEPT !.op = "transcribe",
                        !.args = [audio_path |-> audio_path],
                        !.exit = IF out.kind = "return" THEN "returned" ELSE "raised",
                        !.result = out,
                        !.transcribe_calls =
                            <<[self |-> bot.voice_input, audio_path |-> audio_path,
                               heard |-> heard, result |-> out]>>]
    /\ UNCHANGED <<serviceVars, indexVars, voice_outputs, bot>>

\* bot.voice_output.speak(text)
Speak ==
    /\ Idle
    /\ bot # NoneVal
    /\ \E text \in Replies, tts \in TtsOutcomes, name \in uuid4(DOMAIN voice_outputs) :
        LET out == speak(bot.voice_output, text, name, tts, voice_outputs)
        IN  /\ voice_outputs' = out.files
            /\ last' = [NoTrace EXCEPT !.op = "speak",
                            !.args = [text |-> text],
                            !.exit = IF out.result.kind = "return"
                                     THEN "returned" ELSE "raised",
                            !.result = out.result,
                            !.speak_calls = <<[text |-> text, name |-> name,
                                               tts |-> tts, result |-> out.result]>>]
    /\ UNCHANGED <<serviceVars, indexVars, bot>>

\* bot.process(text_input=..., audio_path=...)
Process ==
    /\ Idle
    /\ bot # NoneVal
    /\ \E text_input \in OptTexts, audio_path \in AudioPaths :
       \E heard \in IF Truthy(audio_path) THEN WhisperOutcomes ELSE {NotCalled} :
       \E ans \in IF process(bot, text_input, audio_path, heard, AnyAnswer, "-",
                             AnyTts, voice_outputs).trace.answer_calls # <<>>
                  THEN AnswerOutcomes ELSE {NotCalled} :
       \E tts \in IF process(bot, text_input, audio_path, heard, ans, "-",
                             AnyTts, voice_outputs).trace.speak_calls # <<>>
                  THEN TtsOutcomes ELSE {NotCalled} :
       \E name \in IF tts = NotCalled THEN {"-"} ELSE uuid4(DOMAIN voice_outputs) :
            LET done == process(bot, text_input, audio_path, heard, ans, name, tts,
                                voice_outputs)
            IN  /\ last' = done.trace
                /\ voice_outputs' = done.files
    /\ UNCHANGED <<serviceVars, indexVars, bot>>

VoiceNext == NewVoiceChatbot \/ Transcribe \/ Speak \/ Process \/ PrintResult

VoiceSpec == Init /\ [][VoiceNext]_vars

-----------------------------------------------------------------------------
(* The indexer, run as a batch script over a corpus that does not change *)

IndexInit ==
    /\ phase = "startup"
    /\ voice_input_processor = NoneVal
    /\ voice_output_processor = NoneVal
    /\ rag_ready = "untested"
    /\ inflight = {}
    /\ temp_audio = {}
    /\ voice_outputs = EmptyDir
    /\ bot = NoneVal
    /\ collection = {}
    /\ corpus \in [DataFiles -> 0..MaxDocs]
    /\ runs = 0
    /\ last = NoTrace

\* python build_vectordb.py
RunBuildVectordb ==
    /\ Idle
    /\ runs < MaxRuns
    /\ \E embed \in {"ok", "raise"} :
        LET ran == build_vectordb(collection, corpus, embed)
        IN  /\ collection' = ran.collection
            /\ last' = ran.trace
            /\ runs' = IF embed = "ok" THEN runs + 1 ELSE runs
    /\ UNCHANGED <<serviceVars, voice_outputs, voiceVars, corpus>>

\* The script has printed its counts and exits.
ExitScript ==
    /\ ~Idle
    /\ last' = NoTrace
    /\ UNCHANGED <<serviceVars, voice_outputs, voiceVars, indexVars>>

IndexNext == RunBuildVectordb \/ ExitScript

IndexSpec == IndexInit /\ [][IndexNext]_vars

-----------------------------------------------------------------------------
(* Properties *)

Calls(field) == {last[field][i] : i \in DOMAIN last[field]}

Blank(v) == v.tag # "str" \/ strip(v.val) = <<>>

\* C1: on the voice path (chat_voice, VoiceChatbot.process with an
\* audio_path), when transcribe gives nothing for the audio, answer_query
\* is not called and the caller gets the fixed failure: HTTP 400 from
\* chat_voice, "Unable to process input." with audio None from process.
C1_NoTranscriptionNoAnswer ==
    (/\ last.op \in {"chat_voice", "process"}
     /\ last.transcribe_calls # <<>>
     /\ ~Truthy(last.transcribe_calls[1].result.value))
        => /\ last.answer_calls = <<>>
           /\ last.op = "chat_voice" =>
                /\ last.result.kind = "raise"
                /\ last.result.value.tag = "HTTPException"
                /\ last.result.value.status_code = 400
           /\ last.op = "process" =>
                last.result = Return(Reply(UNABLE, NoneVal))

\* C2: no entry point (chat, chat_voice, VoiceChatbot.process) calls
\* answer_query with an empty or whitespace-only string.
C2_NoBlankQuery ==
    \A call \in Calls("answer_calls") : ~Blank(call.arg)

\* C3: whenever chat or chat_voice calls the pipeline, the request ends in a
\* normal response whose reply is answer_query's result when it returned
\* and the fixed apology when it raised; the HTTP 500 branch is not taken.
C3_PipelineFailureIsApology ==
    (last.op \in {"chat", "chat_voice"} /\ last.answer_calls # <<>>)
        => LET outcome == last.answer_calls[1].outcome
           IN  /\ last.exit = "returned"
               /\ last.result.kind = "return"
               /\ last.result.value.reply =
                    IF outcome.kind = "raise" THEN APOLOGY ELSE outcome.value

C3_Witness ==
    /\ last.op = "chat"
    /\ last.answer_calls # <<>>
    /\ last.answer_calls[1].outcome.kind = "raise"
    /\ last.result = Return(ChatResponse(APOLOGY, Str(<<"session-1">>), NoneVal))

\* C4: a service whose startup probe answer_query("test initialization")
\* raised never serves a GET /health that answers status "ok".
C4_FailedStartupNeverHealthy ==
    rag_ready = "failed"
        => ~(/\ phase = "serving"
             /\ last.op = "health_check"
             /\ last.result.value.status = "ok")

\* C5: every call of speak returns (it never raises); it returns None
\* exactly when gTTS or save raised or the file is missing or under 1000
\* bytes, and otherwise the path of a file that exists with at least 1000
\* bytes.
C5_SpeakPathOrNone ==
    \A call \in Calls("speak_calls") :
        LET failed == \/ call.tts.ctor = "raise"
                      \/ call.tts.save = "raise"
                      \/ ~call.tts.exists
                      \/ call.tts.size < MinAudioBytes
        IN  /\ call.result.kind = "return"
            /\ failed <=> call.result.value = NoneVal
            /\ ~failed =>
                /\ call.result.value = Path(bot.voice_output.output_dir, call.name)
                /\ call.name \in DOMAIN voice_outputs
                /\ voice_outputs[call.name] >= MinAudioBytes

C5_Witness ==
    /\ last.op = "speak"
    /\ last.speak_calls[1].tts.save = "raise"
    /\ last.speak_calls[1].tts.exists
    /\ last.result = Return(NoneVal)

\* C6: every call of transcribe returns (it never raises); it returns None
\* when the model is unavailable, when Whisper raised or when the
\* recognised text is empty after stripping, and otherwise the stripped,
\* non-empty text; and a failed model load leaves model = None in a
\* processor that was nevertheless constructed.
C6_TranscribeTextOrNone ==
    /\ \A call \in Calls("transcribe_calls") :
        LET text == IF call.heard.kind = "return" /\ call.heard.value.has_text
                    THEN strip(call.heard.value.text) ELSE <<>>
            failed == \/ call.self.model = NoneVal
                      \/ call.heard.kind = "raise"
                      \/ text = <<>>
        IN  /\ call.result.kind = "return"
            /\ failed => call.result.value = NoneVal
            /\ ~failed => call.result.value = Str(text)
            /\ call.result.value = NoneVal \/ ~Blank(call.result.value)
    /\ (last.op = "VoiceChatbot" /\ last.args.mk = "ok")
        => /\ last.result.kind = "return"
           /\ last.args.load # "ok" => last.result.value.voice_input.model = NoneVal
           /\ last.args.load = "ok" =>
                last.result.value.voice_input.model = WhisperModel("base")

C6_Witness ==
    /\ last.op = "transcribe"
    /\ last.transcribe_calls[1].self.model # NoneVal
    /\ last.transcribe_calls[1].heard = Return([has_text |-> TRUE, text |-> <<" ", " ">>])
    /\ last.result = Return(NoneVal)

\* C7: the singletons voice_input_processor and voice_output_processor are
\* assigned only by the startup step and no later step changes them (nor
\* the startup outcome); no handler passes a session id to answer_query:
\* chat passes the stripped message, chat_voice the transcription; and the
\* response carries the request's session id, or a generated one when the
\* request has none.
HandlerKeepsSession ==
    /\ \A call \in Calls("answer_calls") :
        call.arg \notin (SessionIds \cup GeneratedIds)
    /\ (last.op = "chat" /\ last.answer_calls # <<>>)
        => last.answer_calls[1].arg = Str(strip(last.args.message.val))
    /\ (last.op = "chat_voice" /\ last.answer_calls # <<>>)
        => last.answer_calls[1].arg = last.transcribe_calls[1].result.value
    /\ (last.op \in {"chat", "chat_voice"} /\ last.exit = "returned")
        => /\ Truthy(last.args.session_id)
                => last.result.value.session_id = last.args.session_id
           /\ ~Truthy(last.args.session_id)
                => last.result.value.session_id \in GeneratedIds

C7_HandlersKeepNoState ==
    /\ [][phase # "startup" =>
            UNCHANGED <<voice_input_processor, voice_output_processor, rag_ready>>]_vars
    /\ []HandlerKeepsSession

C7_Witness ==
    /\ inflight # {}
    /\ last.op = "chat"
    /\ last.exit = "returned"
    /\ last.args.session_id = Str(<<"session-1">>)
    /\ last.result.value.session_id = Str(<<"session-1">>)

\* C8: a run of the indexer over a collection built by an earlier run from
\* the same documents leaves the collection with the identifiers and the
\* count it had before that run.
C8_RebuildIdempotent ==
    (last.op = "build_vectordb" /\ last.exit = "built" /\ runs > 1)
        => /\ last.result.value.ids = last.args.before
           /\ last.result.value.count = last.args.documents

\* C9: while voice input is unavailable, a chat_voice request ends at the
\* gate with HTTP 503 having called nothing and written nothing: no
\* temporary file, no suspended request, no transcribe, answer_query or
\* speak call, no voice output file.
C9_GateBeforeAnything ==
    (voice_input_processor = NoneVal \/ voice_input_processor.model = NoneVal)
        => /\ inflight = {}
           /\ temp_audio = {}
           /\ voice_outputs = EmptyDir
           /\ last.op = "chat_voice" =>
                /\ last.exit = "gate_503"
                /\ last.result.kind = "raise"
                /\ last.result.value.tag = "HTTPException"
                /\ last.result.value.status_code = 503
                /\ last.transcribe_calls = <<>>
                /\ last.answer_calls = <<>>
                /\ last.speak_calls = <<>>
                /\ last.temp_path = NoneVal
                /\ ~last.saved_upload

C9_Witness ==
    /\ last.op = "chat_voice"
    /\ voice_input_processor # NoneVal
    /\ voice_input_processor.model = NoneVal
    /\ last.exit = "gate_503"

TempFileGone ==
    (last.op = "chat_voice" /\ last.temp_path # NoneVal)
        => \/ last.temp_path \notin temp_audio
           \/ last.unlink_calls = <<[path |-> last.temp_path, outcome |-> "fail"]>>

\* Suspended requests hold different files, and each one's file is there.
OwnTempFiles ==
    \A r1 \in inflight :
        /\ r1.temp_audio_path \in temp_audio
        /\ \A r2 \in inflight :
                r1.temp_audio_path = r2.temp_audio_path => r1 = r2

\* A step that completes a request makes one unlink() call, on the file of
\* that request, and removes no other file; no other step removes a file.
UnlinksOwnFile ==
    /\ \A req \in inflight \ inflight' :
            /\ last'.op = "chat_voice"
            /\ last'.temp_path = req.temp_audio_path
            /\ Len(last'.unlink_calls) = 1
            /\ last'.unlink_calls[1].path = req.temp_audio_path
            /\ last'.unlink_calls[1].outcome = "ok"
                    => req.temp_audio_path \notin temp_audio'
            /\ temp_audio \ temp_audio' \subseteq {req.temp_audio_path}
    /\ inflight \ inflight' = {} => temp_audio \subseteq temp_audio'

\* C11: every POST /chat/voice that passed the availability gate calls
\* unlink() on the temporary file it created on whichever path it leaves by,
\* before its response is returned, so that the file is gone once the
\* request has completed unless that unlink() failed; requests in flight at
\* the same time have different temporary files, and none removes a file
\* other than its own.
C11_TempFileDoesNotOutliveRequest ==
    /\ [](TempFileGone /\ OwnTempFiles)
    /\ [][UnlinksOwnFile]_vars

\* A request has returned its reply and removed its file while another one,
\* accepted in the meantime, is still suspended with its own file in place.
C11_Witness ==
    /\ last.op = "chat_voice"
    /\ last.exit = "returned"
    /\ last.unlink_calls = <<[path |-> last.temp_path, outcome |-> "ok"]>>
    /\ last.temp_path \notin temp_audio
    /\ \E other \in inflight :
            /\ other.temp_audio_path # last.temp_path
            /\ other.temp_audio_path \in temp_audio

=============================================================================
